---- MODULE Spec2Model ----
(***************************************************************************)
(* The backend of investment-python (src/backend.py): the credential store *)
(* (users, verification_codes), the registration / e-mail verification     *)
(* handlers, the bearer-token service and the advice request.              *)
(*                                                                         *)
(* The handlers are synchronous FastAPI endpoints served from a thread     *)
(* pool, each with its own database session (get_db).  One action is one   *)
(* database statement of a handler together with the local computation    *)
(* that follows it; the writes of a session take effect at its commit, and *)
(* the commit enforces the unique constraints the tables declare.          *)
(*                                                                         *)
(* Time is counted in ticks, TicksPerSecond of them to a second, so that   *)
(* the whole-second resolution of a JWT "exp" claim is visible next to the *)
(* sub-second resolution of datetime.  The database session is taken to    *)
(* run in UTC, so that the naive utcnow() of line 357 and the aware        *)
(* now(timezone.utc) of line 383 name the same instants.                   *)
(*                                                                         *)
(* Left out: is_active, investment_preference and risk_tolerance (no       *)
(* handler reads them to decide anything) and /calculate.                  *)
(***************************************************************************)
EXTENDS Integers, Sequences, FiniteSets, TLC

\* ------------------------------------------------------------ bounds
MaxRecords == 2        \* verification_codes rows ever inserted
MaxRequests == 4       \* requests ever started
MaxAdvances == 2       \* clock advances
TicksPerSecond == 2    \* clock resolution below one second
MaxIssueTime == 7      \* latest time of issue of SpecIssue, in ticks

Emails == {"a@x.io", "b@x.io"}
Usernames == {"alice", "bob"}
Passwords == {"pw1"}
WrongPasswords == {"bad"}
CodeAlphabet == {"A", "7"}       \* part of ascii_uppercase + digits
InputAlphabet == {"A", "a", "7"} \* what a client may type

\* the requests in flight at the same time
Slots == {1, 2}

\* ------------------------------------------------------------ program constants
ACCESS_TOKEN_EXPIRE_MINUTES == 30
DEFAULT_EXPIRE_MINUTES == 15
CODE_EXPIRE_MINUTES == 10
CODE_LENGTH == 6
SECRET_KEY == "SECRET_KEY"

\* timedelta(minutes=m), in ticks
timedelta_minutes(m) == m * 60 * TicksPerSecond

\* by how much the clock advances in one step
CodeTimeSteps == {1, timedelta_minutes(CODE_EXPIRE_MINUTES)}
TokenTimeSteps == {1, timedelta_minutes(ACCESS_TOKEN_EXPIRE_MINUTES)}

VARIABLES
  users,       \* the rows of table users
  codes,       \* the rows of table verification_codes
  nextUserId,  \* the autoincrement of users.id
  nextCodeId,  \* the autoincrement of verification_codes.id
  now,         \* the clock, in ticks
  advances,    \* how often the clock has advanced
  started,     \* how many requests have started
  req,         \* the request each slot is handling
  last,        \* the response sent last
  tokens,      \* the tokens /token has issued, each with its time of issue
  okCount      \* per verification_codes row, the /verify-email successes

vars == <<users, codes, nextUserId, nextCodeId, now, advances, started,
          req, last, tokens, okCount>>

\* ------------------------------------------------------------ values
NoSub == "<no sub>"
NoExp == 0 - 1
NoToken == [sub |-> NoSub, exp |-> NoExp, key |-> "<absent>"]

NoReq ==
  [kind |-> "none", pc |-> "idle", email |-> "-", username |-> "-",
   password |-> "-", rec |-> 0, del |-> {}, calls |-> <<>>, user |-> "-"]

NoResponse ==
  [kind |-> "none", email |-> "-", status |-> 0, detail |-> "-",
   calls |-> <<>>, tok |-> NoToken, row |-> "none"]

\* slot s takes the next request: it is the first idle one (the slots are
\* interchangeable worker threads)
Free(s) ==
  /\ req[s].pc = "idle"
  /\ \A s2 \in Slots : s2 < s => req[s2].pc # "idle"

\* the response of request r: what the handler returns, or the HTTPException
\* it raises.  row notes, for the reader of a trace, what verification_codes
\* held for the request's e-mail when the response was sent.
Response(r, status, detail) ==
  [NoResponse EXCEPT
     !.kind = r.kind, !.email = r.email, !.status = status,
     !.detail = detail, !.calls = r.calls,
     !.row = IF \A c \in codes : c.email # r.email THEN "none"
             ELSE IF \E c \in codes : c.email = r.email /\ c.expires_at < now
                  THEN "expired" ELSE "live"]

\* ------------------------------------------------------------ queries
\* db.query(User).filter(User.email == e)
UsersByEmail(us, e) == {u \in us : u.email = e}

\* db.query(User).filter(User.username == n)
UsersByUsername(us, n) == {u \in us : u.username = n}

\* db.query(VerificationCode).filter(VerificationCode.email == e)
CodesByEmail(cs, e) == {c \in cs : c.email = e}

\* pwd_context.hash / pwd_context.verify
get_password_hash(p) == <<"argon2", p>>
verify_password(p, h) == h = get_password_hash(p)

\* users.email and users.username are declared unique=True: an INSERT of a
\* row with email e and username n into us violates a constraint
UserUniqueViolation_OnlyEmail(us, e, n) == UsersByEmail(us, e) # {}
UserUniqueViolation(us, e, n) ==
  UsersByEmail(us, e) # {} \/ UsersByUsername(us, n) # {}

\* verification_codes.email is declared unique=True
CodeUniqueViolation_None(cs, e) == FALSE
CodeUniqueViolation(cs, e) == CodesByEmail(cs, e) # {}

\* ------------------------------------------------------------ /register
\* line 290: db_user, the user of this e-mail
register_email_taken_ByUsername(us, e, n) == UsersByUsername(us, n) # {}
register_email_taken(us, e, n) == UsersByEmail(us, e) # {}

\* lines 288-293: the e-mail check
RegisterCheckEmail(s, e, n, p) ==
  /\ Free(s) /\ started < MaxRequests
  /\ started' = started + 1
  /\ LET r == [NoReq EXCEPT !.kind = "register", !.email = e,
                            !.username = n, !.password = p]
     IN IF register_email_taken(users, e, n)
        THEN /\ last' = Response(r, 400, "AlreadyRegistered")
             /\ UNCHANGED req
        ELSE /\ req' = [req EXCEPT ![s] = [r EXCEPT !.pc = "reg_username"]]
             /\ UNCHANGED last
  /\ UNCHANGED <<users, codes, nextUserId, nextCodeId, now, advances,
                 tokens, okCount>>

\* lines 295-298: the username check
RegisterCheckUsername(s) ==
  /\ req[s].pc = "reg_username"
  /\ IF UsersByUsername(users, req[s].username) # {}
     THEN /\ last' = Response(req[s], 400, "DuplicateUsername")
          /\ req' = [req EXCEPT ![s] = NoReq]
     ELSE /\ req' = [req EXCEPT ![s].pc = "reg_record"]
          /\ UNCHANGED last
  /\ UNCHANGED <<users, codes, nextUserId, nextCodeId, now, advances,
                 started, tokens, okCount>>

\* lines 300-304: the verification record of the e-mail
RegisterCheckRecord(s) ==
  /\ req[s].pc = "reg_record"
  /\ \/ /\ CodesByEmail(codes, req[s].email) = {}
        /\ last' = Response(req[s], 400, "NotVerified")
        /\ req' = [req EXCEPT ![s] = NoReq]
     \/ /\ \E c \in CodesByEmail(codes, req[s].email) :
             req' = [req EXCEPT ![s].pc = "reg_commit", ![s].rec = c.id]
        /\ UNCHANGED last
  /\ UNCHANGED <<users, codes, nextUserId, nextCodeId, now, advances,
                 started, tokens, okCount>>

\* lines 306-317: db.delete(verification_record), db.add(db_user),
\* db.commit().  The DELETE names the row read at line 301 by its primary
\* key; a row that is gone by now matches nothing.
RegisterCommit(s) ==
  /\ req[s].pc = "reg_commit"
  /\ \/ /\ UserUniqueViolation(users, req[s].email, req[s].username)
        /\ last' = Response(req[s], 500, "IntegrityError")
        /\ UNCHANGED <<users, codes, nextUserId>>
     \/ /\ ~UserUniqueViolation(users, req[s].email, req[s].username)
        /\ users' = users \cup
             {[id |-> nextUserId, email |-> req[s].email,
               username |-> req[s].username,
               hashed_password |-> get_password_hash(req[s].password)]}
        /\ nextUserId' = nextUserId + 1
        /\ codes' = {c \in codes : c.id # req[s].rec}
        /\ last' = Response(req[s], 200, "Registered")
  /\ req' = [req EXCEPT ![s] = NoReq]
  /\ UNCHANGED <<nextCodeId, now, advances, started, tokens, okCount>>

\* ------------------------------------------------------------ /request-verification
\* ''.join(random.choices(alphabet, k)): the strings of length k over the
\* alphabet; the model draws the ones that repeat one character
random_choices(alphabet, k) == {[i \in 1..k |-> ch] : ch \in alphabet}

\* line 357: datetime.utcnow() + timedelta(minutes=10)
code_expires_at(t) == t + timedelta_minutes(CODE_EXPIRE_MINUTES)

\* lines 344-350: the AlreadyRegistered check
RequestVerificationCheckUser(s, e) ==
  /\ Free(s) /\ started < MaxRequests
  /\ started' = started + 1
  /\ LET r == [NoReq EXCEPT !.kind = "request_verification", !.email = e]
     IN IF UsersByEmail(users, e) # {}
        THEN /\ last' = Response(r, 400, "AlreadyRegistered")
             /\ UNCHANGED req
        ELSE /\ req' = [req EXCEPT ![s] = [r EXCEPT !.pc = "rv_delete"]]
             /\ UNCHANGED last
  /\ UNCHANGED <<users, codes, nextUserId, nextCodeId, now, advances,
                 tokens, okCount>>

\* lines 352-353: the bulk DELETE of the rows of this e-mail, inside the
\* session's transaction
RequestVerificationDelete(s) ==
  /\ req[s].pc = "rv_delete"
  /\ req' = [req EXCEPT ![s].pc = "rv_commit",
               ![s].del = {c.id : c \in CodesByEmail(codes, req[s].email)}]
  /\ UNCHANGED <<users, codes, nextUserId, nextCodeId, now, advances,
                 started, last, tokens, okCount>>

\* lines 355-360: generate the code, db.add(new_code), db.commit()
RequestVerificationCommit(s, code) ==
  /\ req[s].pc = "rv_commit"
  /\ nextCodeId <= MaxRecords
  /\ LET kept == {c \in codes : c.id \notin req[s].del} IN
     \/ /\ CodeUniqueViolation(kept, req[s].email)
        /\ last' = Response(req[s], 500, "IntegrityError")
        /\ req' = [req EXCEPT ![s] = NoReq]
        /\ UNCHANGED <<codes, nextCodeId>>
     \/ /\ ~CodeUniqueViolation(kept, req[s].email)
        /\ codes' = kept \cup
             {[id |-> nextCodeId, email |-> req[s].email, code |-> code,
               created_at |-> now, expires_at |-> code_expires_at(now)]}
        /\ nextCodeId' = nextCodeId + 1
        /\ req' = [req EXCEPT ![s].pc = "rv_send", ![s].rec = nextCodeId,
                              ![s].del = {}]
        /\ UNCHANGED last
  /\ UNCHANGED <<users, nextUserId, now, advances, started, tokens, okCount>>

\* the handler taking the stored code back when the mail was not sent
RequestVerificationSend_Rollback(s, delivered) ==
  /\ req[s].pc = "rv_send"
  /\ last' = IF delivered THEN Response(req[s], 200, "CodeSent")
             ELSE Response(req[s], 500, "DeliveryFailed")
  /\ codes' = IF delivered THEN codes
              ELSE {c \in codes : c.id # req[s].rec}
  /\ req' = [req EXCEPT ![s] = NoReq]
  /\ UNCHANGED <<users, nextUserId, nextCodeId, now, advances,
                 started, tokens, okCount>>

\* lines 362-370 and send_email (320-340): the SMTP dialogue succeeds or not
RequestVerificationSend(s, delivered) ==
  /\ req[s].pc = "rv_send"
  /\ last' = IF delivered THEN Response(req[s], 200, "CodeSent")
             ELSE Response(req[s], 500, "DeliveryFailed")
  /\ req' = [req EXCEPT ![s] = NoReq]
  /\ UNCHANGED <<users, codes, nextUserId, nextCodeId, now, advances,
                 started, tokens, okCount>>

\* ------------------------------------------------------------ /verify-email
\* line 380: code_record.code != verification.code
code_differs_IgnoreCase(stored, submitted) ==
  LET up(ch) == IF ch = "a" THEN "A" ELSE ch
  IN stored # [i \in DOMAIN submitted |-> up(submitted[i])]
code_differs(stored, submitted) == stored # submitted

\* line 383: code_record.expires_at < datetime.now(timezone.utc)
code_expired_AtExpiry(expires_at, t) == expires_at <= t
code_expired(expires_at, t) == expires_at < t

\* what verify_email answers for the rows cs at time t
check_code(cs, e, submitted, t) ==
  IF CodesByEmail(cs, e) = {} THEN "NoPendingCode"
  ELSE LET c == CHOOSE c \in CodesByEmail(cs, e) : TRUE IN
       IF code_differs(c.code, submitted) THEN "CodeMismatch"
       ELSE IF code_expired(c.expires_at, t) THEN "CodeExpired"
       ELSE "Verified"

\* lines 374-388
VerifyEmail(s, e, submitted) ==
  /\ Free(s) /\ started < MaxRequests
  /\ started' = started + 1
  /\ LET r == [NoReq EXCEPT !.kind = "verify_email", !.email = e]
         answer == check_code(codes, e, submitted, now)
         c == CHOOSE c \in CodesByEmail(codes, e) : TRUE
     IN IF answer = "Verified"
        THEN /\ last' = Response(r, 200, answer)
             /\ okCount' = [okCount EXCEPT ![c.id] =
                              IF @ < 2 THEN @ + 1 ELSE @]
        ELSE /\ last' = Response(r, 400, answer)
             /\ UNCHANGED okCount
  /\ UNCHANGED <<users, codes, nextUserId, nextCodeId, now, advances,
                 req, tokens>>

\* the codes line 356 may generate, and the values a client may submit
GeneratedCodes == random_choices(CodeAlphabet, CODE_LENGTH)
SubmittedCodes ==
  UNION {random_choices(InputAlphabet, k) : k \in {CODE_LENGTH - 1, CODE_LENGTH}}

\* ------------------------------------------------------------ tokens
\* jwt.encode: a datetime "exp" becomes whole seconds (timegm of its
\* utctimetuple)
jwt_encode(sub, expire, key) ==
  [sub |-> sub, exp |-> expire \div TicksPerSecond, key |-> key]

\* create_access_token falling back on ACCESS_TOKEN_EXPIRE_MINUTES
create_access_token_ConfiguredDefault(sub, expires_delta, t) ==
  jwt_encode(sub,
             IF expires_delta # 0 THEN t + expires_delta
             ELSE t + timedelta_minutes(ACCESS_TOKEN_EXPIRE_MINUTES),
             SECRET_KEY)

\* lines 198-206; expires_delta = 0 stands for None (and for timedelta(0),
\* which is as false)
create_access_token(sub, expires_delta, t) ==
  jwt_encode(sub,
             IF expires_delta # 0 THEN t + expires_delta
             ELSE t + timedelta_minutes(DEFAULT_EXPIRE_MINUTES),
             SECRET_KEY)

\* lines 198-206 called on their own, with the data {"sub": sub} and
\* expires_delta (0 for None), at the current time
IssueToken(sub, expires_delta) ==
  /\ started < MaxRequests
  /\ started' = started + 1
  /\ tokens' = tokens \cup
       {[jwt |-> create_access_token(sub, expires_delta, now),
         iat |-> now, ttl |-> expires_delta]}
  /\ UNCHANGED <<users, codes, nextUserId, nextCodeId, now, advances,
                 req, last, okCount>>

\* jwt.decode(token, SECRET_KEY, algorithms=[ALGORITHM]) raises JWTError:
\* the signature is not of this key, or exp < now (in whole seconds)
jwt_decode_fails_NoExpiry(tok, key, t) == tok.key # key
jwt_decode_fails_NoSignature(tok, key, t) ==
  tok.exp # NoExp /\ tok.exp < t \div TicksPerSecond
jwt_decode_fails(tok, key, t) ==
  \/ tok.key # key
  \/ tok.exp # NoExp /\ tok.exp < t \div TicksPerSecond

\* lines 163-184, after oauth2_scheme has refused a request without a
\* bearer token: the username of the user returned, or "401"
get_current_user(tok, us, t) ==
  IF tok = NoToken THEN "401"
  ELSE IF jwt_decode_fails(tok, SECRET_KEY, t) THEN "401"
  ELSE IF tok.sub = NoSub THEN "401"
  ELSE IF UsersByUsername(us, tok.sub) = {} THEN "401"
  ELSE (CHOOSE u \in UsersByUsername(us, tok.sub) : TRUE).username

\* lines 192-196
authenticate_user(us, n, p) ==
  {u \in UsersByUsername(us, n) : verify_password(p, u.hashed_password)}

\* lines 391-400
Login(s, n, p) ==
  /\ Free(s) /\ started < MaxRequests
  /\ started' = started + 1
  /\ LET r == [NoReq EXCEPT !.kind = "token", !.username = n] IN
     IF authenticate_user(users, n, p) = {}
     THEN /\ last' = Response(r, 400, "InvalidCredentials")
          /\ UNCHANGED tokens
     ELSE LET u == CHOOSE u \in authenticate_user(users, n, p) : TRUE
              tok == create_access_token(
                       u.username,
                       timedelta_minutes(ACCESS_TOKEN_EXPIRE_MINUTES), now)
          IN /\ last' = Response(r, 200, "Token")
             /\ tokens' = tokens \cup
                  {[jwt |-> tok, iat |-> now,
                    ttl |-> timedelta_minutes(ACCESS_TOKEN_EXPIRE_MINUTES)]}
  /\ UNCHANGED <<users, codes, nextUserId, nextCodeId, now, advances,
                 req, okCount>>

\* ------------------------------------------------------------ /advanced_investment_advice
\* the tokens a client may present
CraftedTokens ==
  [sub : Usernames \cup {NoSub}, exp : {NoExp, 0}, key : {SECRET_KEY}]
  \cup [sub : {"alice"}, exp : {NoExp}, key : {"other key"}]
TokenInputs == {NoToken} \cup {t.jwt : t \in tokens} \cup CraftedTokens

\* the handler with its body entered whatever get_current_user answers
AdviceAuth_Unguarded(s, tok) ==
  /\ Free(s) /\ started < MaxRequests
  /\ started' = started + 1
  /\ req' = [req EXCEPT ![s] =
               [NoReq EXCEPT !.kind = "advice", !.pc = "adv_rate",
                             !.user = get_current_user(tok, users, now)]]
  /\ UNCHANGED <<users, codes, nextUserId, nextCodeId, now, advances,
                 last, tokens, okCount>>

\* the dependency get_current_user of line 404, resolved before the body
AdviceAuth(s, tok) ==
  /\ Free(s) /\ started < MaxRequests
  /\ started' = started + 1
  /\ LET r == [NoReq EXCEPT !.kind = "advice"]
         who == get_current_user(tok, users, now)
     IN IF who = "401"
        THEN /\ last' = [Response(r, 401, "Unauthenticated") EXCEPT !.tok = tok]
             /\ UNCHANGED req
        ELSE /\ req' = [req EXCEPT ![s] =
                          [r EXCEPT !.pc = "adv_rate", !.user = who]]
             /\ UNCHANGED last
  /\ UNCHANGED <<users, codes, nextUserId, nextCodeId, now, advances,
                 tokens, okCount>>

\* the upstream calls of a request that succeeds, in the order of lines
\* 406-408 and of the chain of lines 265-280; the two of them that invoke
\* the language model
Pipeline == <<"rate", "history", "news", "analysis", "translation">>
LLMCalls(calls) ==
  Cardinality({i \in DOMAIN calls : calls[i] \in {"analysis", "translation"}})

\* one upstream call of the request on slot s: it is recorded, and the
\* request goes on to pc `next` or ends with a 500
Upstream(s, call, ok, next, detail) ==
  LET r == [req[s] EXCEPT !.calls = Append(@, call)] IN
  /\ IF ok
     THEN /\ req' = [req EXCEPT ![s] = [r EXCEPT !.pc = next]]
          /\ UNCHANGED last
     ELSE /\ last' = Response(r, 500, detail)
          /\ req' = [req EXCEPT ![s] = NoReq]
  /\ UNCHANGED <<users, codes, nextUserId, nextCodeId, now, advances,
                 started, tokens, okCount>>

\* get_exchange_rate answering a value whatever the provider did
GetExchangeRate_Swallowed(s, outcome) ==
  /\ req[s].pc = "adv_rate"
  /\ Upstream(s, "rate", TRUE, "adv_hist", "RateFailed")

\* line 406 and get_exchange_rate (208-217): a RequestException becomes the
\* 500 of line 217, any other exception the 500 of line 418
GetExchangeRate(s, outcome) ==
  /\ req[s].pc = "adv_rate"
  /\ Upstream(s, "rate", outcome = "ok", "adv_hist",
              IF outcome = "request_error" THEN "RateFailed" ELSE "Unexpected")

\* line 407 and get_historical_rates (219-228)
GetHistoricalRates(s, ok) ==
  /\ req[s].pc = "adv_hist"
  /\ Upstream(s, "history", ok, "adv_news", "HistoryFailed")

\* line 408 and the chain of get_advanced_investment_advice (239-285):
\* get_economic_news (230-237), the analysis call, the translation call
GetEconomicNews(s, ok) ==
  /\ req[s].pc = "adv_news"
  /\ Upstream(s, "news", ok, "adv_analysis", "AdviceFailed")

\* the chain returning what the analysis call answered
AnalysisCall_NoTranslation(s, ok) ==
  /\ req[s].pc = "adv_analysis"
  /\ LET r == [req[s] EXCEPT !.calls = Append(@, "analysis")] IN
     /\ last' = IF ok THEN Response(r, 200, "Advice")
                ELSE Response(r, 500, "AdviceFailed")
     /\ req' = [req EXCEPT ![s] = NoReq]
  /\ UNCHANGED <<users, codes, nextUserId, nextCodeId, now, advances,
                 started, tokens, okCount>>

\* lines 273-275: analysis_prompt | llm | StrOutputParser()
AnalysisCall(s, ok) ==
  /\ req[s].pc = "adv_analysis"
  /\ Upstream(s, "analysis", ok, "adv_translation", "AdviceFailed")

\* lines 276-279, the translation call on {"english_advice": the analysis},
\* and lines 282, 409-413
TranslationCall(s, ok) ==
  /\ req[s].pc = "adv_translation"
  /\ LET r == [req[s] EXCEPT !.calls = Append(@, "translation")] IN
     /\ last' = IF ok THEN Response(r, 200, "Advice")
                ELSE Response(r, 500, "AdviceFailed")
     /\ req' = [req EXCEPT ![s] = NoReq]
  /\ UNCHANGED <<users, codes, nextUserId, nextCodeId, now, advances,
                 started, tokens, okCount>>

\* ------------------------------------------------------------ the clock
Advance(d) ==
  /\ advances < MaxAdvances
  /\ now' = now + d
  /\ advances' = advances + 1
  /\ UNCHANGED <<users, codes, nextUserId, nextCodeId, started, req, last,
                 tokens, okCount>>

\* ------------------------------------------------------------ specification
Init ==
  /\ users = {} /\ codes = {}
  /\ nextUserId = 1 /\ nextCodeId = 1
  /\ now = 0 /\ advances = 0 /\ started = 0
  /\ req = [s \in Slots |-> NoReq]
  /\ last = NoResponse
  /\ tokens = {}
  /\ okCount = [i \in 1..MaxRecords |-> 0]

\* the handlers of the credential store, on slot s
Register(s) ==
  \/ \E e \in Emails, n \in Usernames, p \in Passwords :
       RegisterCheckEmail(s, e, n, p)
  \/ RegisterCheckUsername(s)
  \/ RegisterCheckRecord(s)
  \/ RegisterCommit(s)

RequestVerification(s) ==
  \/ \E e \in Emails : RequestVerificationCheckUser(s, e)
  \/ RequestVerificationDelete(s)
  \/ \E c \in GeneratedCodes : RequestVerificationCommit(s, c)
  \/ \E ok \in BOOLEAN : RequestVerificationSend(s, ok)

CheckCode(s) ==
  \E e \in Emails, c \in SubmittedCodes : VerifyEmail(s, e, c)

Token(s) ==
  \E n \in Usernames, p \in Passwords \cup WrongPasswords : Login(s, n, p)

Advice(s) ==
  \/ \E t \in TokenInputs : AdviceAuth(s, t)
  \/ \E o \in {"ok", "request_error", "parse_error"} : GetExchangeRate(s, o)
  \/ \E ok \in BOOLEAN : GetHistoricalRates(s, ok)
  \/ \E ok \in BOOLEAN : GetEconomicNews(s, ok)
  \/ \E ok \in BOOLEAN : AnalysisCall(s, ok)
  \/ \E ok \in BOOLEAN : TranslationCall(s, ok)

\* Spec: the requests to the credential store, served concurrently
Next ==
  \E s \in Slots : Register(s) \/ RequestVerification(s) \/ CheckCode(s)

Spec == Init /\ [][Next]_vars

\* SpecCode: the life of a verification code: the credential store's
\* handlers, one request at a time, and the clock
NextCode ==
  \/ Register(1) \/ RequestVerification(1) \/ CheckCode(1)
  \/ \E d \in CodeTimeSteps : Advance(d)

SpecCode == Init /\ [][NextCode]_vars

\* SpecToken: the life of a token: registration, /token and the advice
\* request, one request at a time, and the clock
NextToken ==
  \/ Register(1) \/ RequestVerification(1)
  \/ Token(1) \/ Advice(1)
  \/ \E d \in TokenTimeSteps : Advance(d)

SpecToken == Init /\ [][NextToken]_vars

\* SpecIssue: create_access_token on its own, with and without
\* expires_delta, at any time of issue
IssueTimes == 0..MaxIssueTime

InitIssue ==
  /\ users = {} /\ codes = {}
  /\ nextUserId = 1 /\ nextCodeId = 1
  /\ now \in IssueTimes /\ advances = 0 /\ started = 0
  /\ req = [s \in Slots |-> NoReq]
  /\ last = NoResponse
  /\ tokens = {}
  /\ okCount = [i \in 1..MaxRecords |-> 0]

NextIssue ==
  \E sub \in Usernames,
     d \in {0, timedelta_minutes(ACCESS_TOKEN_EXPIRE_MINUTES)} :
    IssueToken(sub, d)

SpecIssue == InitIssue /\ [][NextIssue]_vars
\* ------------------------------------------------------------ properties
\* a step in which a request starts and is answered at once
Answered == started' # started /\ req' = req

\* C1: in every reachable state, whatever the interleaving of /register,
\* /request-verification and /verify-email, no two rows of users share an
\* email and no two share a username.
C1_UniqueUsers ==
  \A u1 \in users, u2 \in users :
    u1 # u2 => u1.email # u2.email /\ u1.username # u2.username

\* two concurrent /register passed the checks of lines 290-298, one has
\* committed and the commit of the other was refused
C1_Witness ==
  /\ last.kind = "register" /\ last.detail = "IntegrityError"
  /\ users # {}

\* C2: a /register that starts when a user of its e-mail exists answers 400
\* AlreadyRegistered, whatever else it carries and whether or not a
\* verification record of that e-mail is pending; the request ends there and
\* changes neither table.
C2_DuplicateEmailRejected ==
  [][\A s \in Slots, e \in Emails :
       (/\ started' # started
        /\ UsersByEmail(users, e) # {}
        /\ \/ /\ req[s].kind = "none"
              /\ req'[s].kind = "register" /\ req'[s].email = e
           \/ /\ req' = req
              /\ last'.kind = "register" /\ last'.email = e) =>
         /\ last'.kind = "register" /\ last'.email = e
         /\ last'.status = 400 /\ last'.detail = "AlreadyRegistered"
         /\ req' = req
         /\ users' = users /\ codes' = codes]_vars

\* a /register was refused as AlreadyRegistered while a code of its e-mail
\* was pending
C2_Witness ==
  /\ last.kind = "register" /\ last.detail = "AlreadyRegistered"
  /\ last.row = "live"
  /\ UsersByEmail(users, last.email) # {}

\* C3: /register creates a user of e-mail e only if a verification record of
\* e exists at that moment; the commit that creates the user adds exactly
\* that one user and deletes the record of e, leaving every other row; a
\* /register that fails leaves both tables as they were.
C3_RegisterConsumesRecord ==
  [][\A s \in Slots :
       /\ RegisterCommit(s) =>
            IF users' # users
            THEN /\ CodesByEmail(codes, req[s].email) # {}
                 /\ Cardinality(users' \ users) = 1
                 /\ users \subseteq users'
                 /\ \A u \in users' \ users : u.email = req[s].email
                 /\ codes' = codes \ CodesByEmail(codes, req[s].email)
            ELSE /\ last'.status \in {400, 500}
                 /\ codes' = codes
       /\ (\/ \E e \in Emails, n \in Usernames, p \in Passwords :
                RegisterCheckEmail(s, e, n, p)
           \/ RegisterCheckUsername(s)
           \/ RegisterCheckRecord(s)) =>
            users' = users /\ codes' = codes]_vars
\* C4: a verification code is single-use: no row of verification_codes is
\* accepted by /verify-email more than once (a new /request-verification
\* stores a new row).
C4_SingleUse == \A i \in DOMAIN okCount : okCount[i] <= 1

\* C5: the row stored at time t expires at t + 10 minutes; the stored code
\* submitted later than that is refused as CodeExpired, and submitted at any
\* time up to that it is accepted.
C5_TenMinuteExpiry ==
  [][/\ \A c \in codes' \ codes :
          c.created_at = now /\ c.expires_at = now + 10 * 60 * TicksPerSecond
     /\ \A s \in Slots, e \in Emails, sub \in SubmittedCodes :
          (Answered /\ VerifyEmail(s, e, sub)) =>
            \A c \in CodesByEmail(codes, e) :
              c.code = sub =>
                IF now > c.created_at + 10 * 60 * TicksPerSecond
                THEN last'.status = 400 /\ last'.detail = "CodeExpired"
                ELSE last'.status = 200 /\ last'.detail = "Verified"]_vars

\* the stored code was submitted one tick after its expiry, and refused
C5_Witness ==
  /\ last.kind = "verify_email" /\ last.detail = "CodeExpired"
  /\ \E c \in codes :
       c.email = last.email /\ now = c.created_at + 10 * 60 * TicksPerSecond + 1

\* C6: /verify-email succeeds only for a value equal to the stored code of
\* the e-mail: without a row it answers NoPendingCode, with a row and any
\* other value (other case, a prefix) CodeMismatch, expired or not; and it
\* changes neither table.
C6_ExactMatchOnly ==
  [][\A s \in Slots, e \in Emails, sub \in SubmittedCodes :
       (Answered /\ VerifyEmail(s, e, sub)) =>
         /\ last'.kind = "verify_email" /\ last'.email = e
         /\ last'.status = 200 => \E c \in CodesByEmail(codes, e) : c.code = sub
         /\ CodesByEmail(codes, e) = {} =>
              last'.status = 400 /\ last'.detail = "NoPendingCode"
         /\ (\E c \in CodesByEmail(codes, e) : c.code # sub) =>
              last'.status = 400 /\ last'.detail = "CodeMismatch"
         /\ users' = users /\ codes' = codes]_vars

\* a value other than the stored code was refused as CodeMismatch although
\* the row had expired
C6_Witness ==
  /\ last.kind = "verify_email" /\ last.detail = "CodeMismatch"
  /\ last.row = "expired"
\* no two rows of verification_codes share an e-mail
OneCodePerEmail ==
  \A c1 \in codes, c2 \in codes : c1 # c2 => c1.email # c2.email

\* the commit of the /request-verification on slot s has replaced the rows
\* of its e-mail by one new row holding the generated code
CodeReplaced(s, code) ==
  /\ \E c \in codes' \ codes :
       /\ CodesByEmail(codes', req[s].email) = {c}
       /\ c.code = code /\ Len(c.code) = 6
       /\ \A i \in 1..6 : c.code[i] \in CodeAlphabet
  /\ \A e \in Emails \ {req[s].email} :
       CodesByEmail(codes', e) = CodesByEmail(codes, e)

\* C7 as stated: at most one pending row per e-mail in every reachable
\* state, and every /request-verification that passed the AlreadyRegistered
\* check replaces the rows of its e-mail by exactly one new row holding the
\* fresh 6-character code, leaving the rows of other e-mails.
C7_EveryRequestStoresOneCode ==
  /\ []OneCodePerEmail
  /\ [][\A s \in Slots, code \in GeneratedCodes :
          RequestVerificationCommit(s, code) => CodeReplaced(s, code)]_vars

\* C7 as amended: at most one pending row per e-mail in every reachable
\* state; the commit of a /request-verification replaces the rows of its
\* e-mail by exactly one new row holding the fresh 6-character code, leaving
\* the rows of other e-mails, unless another /request-verification has
\* stored a row of the same e-mail since this one's DELETE: then the commit
\* is refused (unique e-mail), the request ends with a 500 and
\* verification_codes is unchanged.
C7_OneCodePerEmail ==
  /\ []OneCodePerEmail
  /\ [][\A s \in Slots, code \in GeneratedCodes :
          RequestVerificationCommit(s, code) =>
            IF \E c \in CodesByEmail(codes, req[s].email) : c.id \notin req[s].del
            THEN /\ last'.kind = "request_verification"
                 /\ last'.status = 500 /\ last'.detail = "IntegrityError"
                 /\ codes' = codes
            ELSE CodeReplaced(s, code)]_vars

\* of two concurrent /request-verification for one e-mail, one has stored
\* its row and the commit of the other was refused
C7_Witness ==
  /\ last.kind = "request_verification" /\ last.detail = "IntegrityError"
  /\ Cardinality(CodesByEmail(codes, last.email)) = 1

\* C8 as stated: a token issued by /token (sub = u, ttl 30 minutes)
\* resolves to u at every time before its time of issue + ttl, and is
\* refused with 401 at every time after that.
C8_TokenLifetime ==
  [][\A s \in Slots, tok \in TokenInputs :
       (started' # started /\ AdviceAuth(s, tok)) =>
         \A i \in tokens :
           (i.jwt = tok /\ i.ttl = 30 * 60 * TicksPerSecond) =>
             /\ now < i.iat + i.ttl =>
                  req'[s].pc = "adv_rate" /\ req'[s].user = i.jwt.sub
             /\ now > i.iat + i.ttl =>
                  req' = req /\ last'.kind = "advice" /\ last'.status = 401]_vars

\* C8 as amended: such a token resolves to u at every time up to its time
\* of issue + ttl, and is refused with 401 at every time one second or more
\* after that (exp is kept and compared in whole seconds, so that within
\* the second after the ttl has elapsed the token may still resolve).
C8_TokenLifetimeWholeSeconds ==
  [][\A s \in Slots, tok \in TokenInputs :
       (started' # started /\ AdviceAuth(s, tok)) =>
         \A i \in tokens :
           (i.jwt = tok /\ i.ttl = 30 * 60 * TicksPerSecond) =>
             /\ now <= i.iat + i.ttl =>
                  req'[s].pc = "adv_rate" /\ req'[s].user = i.jwt.sub
             /\ now >= i.iat + i.ttl + TicksPerSecond =>
                  req' = req /\ last'.kind = "advice" /\ last'.status = 401]_vars

\* a token that /token issued has been refused
C8_Witness ==
  /\ last.kind = "advice" /\ last.status = 401
  /\ \E i \in tokens :
       i.jwt = last.tok /\ now >= i.iat + i.ttl + TicksPerSecond

\* C9: get_current_user returns a user only for a token signed with the
\* server's key that carries a subject for which a user of that username
\* exists at that moment, and the user returned is that one; a token with
\* another signature, without subject or with an unknown subject is refused
\* with 401.
C9_ResolveToken ==
  [][\A s \in Slots, tok \in TokenInputs :
       (started' # started /\ AdviceAuth(s, tok)) =>
         /\ req'[s].pc = "adv_rate" =>
              /\ tok.key = SECRET_KEY /\ tok.sub # NoSub
              /\ \E u \in users : u.username = tok.sub
              /\ req'[s].user = tok.sub
         /\ (\/ tok.key # SECRET_KEY \/ tok.sub = NoSub
             \/ \A u \in users : u.username # tok.sub) =>
              /\ req' = req
              /\ last'.kind = "advice" /\ last'.status = 401
              /\ last'.detail = "Unauthenticated"]_vars

\* a token of the server's key, not expired, was refused: no user has the
\* username of its subject
C9_Witness ==
  /\ last.kind = "advice" /\ last.status = 401
  /\ last.tok.key = SECRET_KEY /\ last.tok.exp = NoExp
  /\ last.tok.sub \in Usernames
  /\ \A u \in users : u.username # last.tok.sub

\* C10: an advice request without bearer token, or with a token that does
\* not resolve to a user, ends with the 401 and has made no upstream call;
\* a request that has made an upstream call has resolved its user before.
C10_AuthBeforeUpstream ==
  /\ [](\A s \in Slots :
          req[s].kind = "advice" =>
            \E u \in users : u.username = req[s].user)
  /\ [](last.kind = "advice" /\ last.calls # <<>> => last.status # 401)
  /\ [][\A s \in Slots, tok \in TokenInputs :
          (started' # started /\ AdviceAuth(s, tok)
             /\ (tok = NoToken \/ get_current_user(tok, users, now) = "401")) =>
            /\ req' = req
            /\ last'.kind = "advice" /\ last'.status = 401
            /\ last'.calls = <<>>]_vars

\* a request without bearer token was refused and had called no upstream
C10_Witness ==
  /\ last.kind = "advice" /\ last.status = 401 /\ last.tok = NoToken
  /\ last.calls = <<>>

\* C11: when the quote provider fails in an advice request (a network or
\* HTTP error, or an answer that does not parse), the request ends there
\* with a 500: the rate call is the only upstream call it has made, and
\* users and verification_codes are as they were.
C11_QuoteFailure ==
  /\ [](last.kind = "advice" /\ last.detail \in {"RateFailed", "Unexpected"}
          => last.status = 500 /\ last.calls = <<"rate">>)
  /\ [][\A s \in Slots, o \in {"request_error", "parse_error"} :
          GetExchangeRate(s, o) =>
            /\ req[s].calls = <<>>
            /\ last'.kind = "advice" /\ last'.status = 500
            /\ last'.calls = <<"rate">>
            /\ req'[s] = NoReq
            /\ users' = users /\ codes' = codes]_vars

\* the quote provider answered what does not parse, in the request of a
\* registered user
C11_Witness ==
  /\ last.kind = "advice" /\ last.status = 500
  /\ last.detail = "Unexpected"
  /\ last.calls = <<"rate">>
  /\ users # {}

\* C12 as stated: create_access_token called without expires_delta gives a
\* token whose exp is 30 minutes after the time of issue (in the whole
\* seconds a token keeps).
C12_DefaultTtlThirtyMinutes ==
  \A i \in tokens :
    i.ttl = 0 =>
      i.jwt.exp = (i.iat + 30 * 60 * TicksPerSecond) \div TicksPerSecond

\* C12 as amended: called without expires_delta it gives a token whose exp
\* is 15 minutes after the time of issue; it is /token that asks for 30
\* minutes, and gets them.
C12_DefaultTtlFifteenMinutes ==
  \A i \in tokens :
    /\ i.jwt.key = SECRET_KEY /\ i.jwt.sub \in Usernames
    /\ i.ttl = 0 =>
         i.jwt.exp = (i.iat + 15 * 60 * TicksPerSecond) \div TicksPerSecond
    /\ i.ttl = 30 * 60 * TicksPerSecond =>
         i.jwt.exp = (i.iat + 30 * 60 * TicksPerSecond) \div TicksPerSecond

\* a token was issued without expires_delta, and one with, at a time that
\* is not a whole second
C12_Witness ==
  /\ now % TicksPerSecond # 0
  /\ \E i \in tokens : i.ttl = 0 /\ i.iat = now
  /\ \E i \in tokens : i.ttl # 0 /\ i.iat = now

\* C13: a /request-verification for an e-mail that has a user answers 400
\* AlreadyRegistered, stores no code and sends no mail (the request ends
\* there); and in every reachable state, whatever the interleaving of
\* /request-verification and /register, no e-mail has both a user and a
\* pending verification code.
C13_NoUserWithPendingCode ==
  /\ [](\A e \in Emails :
          UsersByEmail(users, e) = {} \/ CodesByEmail(codes, e) = {})
  /\ [][\A s \in Slots, e \in Emails :
          (/\ started' # started
           /\ UsersByEmail(users, e) # {}
           /\ \/ /\ req[s].kind = "none"
                 /\ req'[s].kind = "request_verification"
                 /\ req'[s].email = e
              \/ /\ req' = req
                 /\ last'.kind = "request_verification"
                 /\ last'.email = e) =>
            /\ last'.kind = "request_verification" /\ last'.email = e
            /\ last'.status = 400 /\ last'.detail = "AlreadyRegistered"
            /\ req' = req
            /\ codes' = codes]_vars

\* C14: /register creates the user of e-mail e only when a /verify-email of
\* e has succeeded against the row now pending for e and that row has not
\* expired; on a row that was never checked, or has expired, it answers
\* 400 "verification not completed" as it does without a row.
C14_RegisterAfterVerification ==
  [][\A s \in Slots :
       LET verified ==
             \E c \in CodesByEmail(codes, req[s].email) :
               okCount[c.id] >= 1 /\ c.expires_at >= now
       IN /\ (req[s].pc = "reg_record" /\ req'[s] # req[s] /\ ~verified) =>
               /\ req'[s] = NoReq
               /\ last'.kind = "register" /\ last'.status = 400
               /\ last'.detail = "NotVerified"
          /\ (req[s].kind = "register" /\ users' # users) => verified]_vars

\* C15: when the mail cannot be sent, /request-verification answers 500
\* DeliveryFailed and leaves the row it committed before the send: after
\* that response the row of this request is the one pending row of the
\* e-mail (a previous one is gone), and a /register of the e-mail that
\* follows passes the verification-record check.
C15_DeliveryFailedKeepsCode ==
  /\ [](last.kind = "request_verification" /\ last.detail = "DeliveryFailed"
          => /\ last.status = 500
             /\ Cardinality(CodesByEmail(codes, last.email)) = 1)
  /\ [][\A s \in Slots :
          /\ RequestVerificationSend(s, FALSE) =>
               /\ last'.kind = "request_verification"
               /\ last'.email = req[s].email
               /\ last'.status = 500 /\ last'.detail = "DeliveryFailed"
               /\ codes' = codes
               /\ \E c \in codes' :
                    /\ c.id = req[s].rec /\ c.id = nextCodeId - 1
                    /\ CodesByEmail(codes', req[s].email) = {c}
          /\ (/\ last.detail = "DeliveryFailed"
              /\ req[s].kind = "register" /\ req[s].email = last.email
              /\ req[s].pc = "reg_record" /\ req'[s] # req[s]) =>
               req'[s].pc = "reg_commit"]_vars

\* the mail of a second /request-verification of an e-mail could not be
\* sent: its row is there, the row of the first is gone
C15_Witness ==
  /\ last.kind = "request_verification" /\ last.detail = "DeliveryFailed"
  /\ users = {}
  /\ \E c \in codes : codes = {c} /\ c.id = 2 /\ c.email = last.email

\* C16: the upstream calls of an advice request are made in the order
\* current rate, historical rates, news search, analysis call, translation
\* call, each at most once; a request that succeeds has made all five, the
\* language model being invoked exactly twice, and answers after the
\* translation call; the failure of a call ends the request with a 500
\* before any later call.
C16_FixedPipeline ==
  /\ [](\A s \in Slots :
          /\ Len(req[s].calls) < Len(Pipeline)
          /\ req[s].calls = SubSeq(Pipeline, 1, Len(req[s].calls)))
  /\ [](last.kind = "advice" /\ last.status # 401 =>
          /\ last.calls # <<>> /\ Len(last.calls) <= Len(Pipeline)
          /\ last.calls = SubSeq(Pipeline, 1, Len(last.calls))
          /\ last.status \in {200, 500}
          /\ last.status = 200 =>
               last.calls = Pipeline /\ LLMCalls(last.calls) = 2)
  /\ [][\A s \in Slots :
          (req[s].kind = "advice" /\ req'[s] # req[s]) =>
            LET n == Len(req[s].calls) IN
            \/ /\ req'[s].kind = "advice"
               /\ req'[s].calls = Append(req[s].calls, Pipeline[n + 1])
               /\ last' = last
            \/ /\ req'[s] = NoReq
               /\ last'.kind = "advice"
               /\ last'.calls = Append(req[s].calls, Pipeline[n + 1])
               /\ last'.status = IF last'.calls = Pipeline
                                 THEN last'.status ELSE 500]_vars

\* a request has succeeded: it has made the five calls, in order
C16_Witness ==
  /\ last.kind = "advice" /\ last.status = 200
  /\ last.calls = Pipeline /\ LLMCalls(last.calls) = 2
====
